---- MODULE Spec2Model ----
(***************************************************************************)
(* Model of photometry_linalg: the weighted least-squares routine linreg   *)
(* of the notebook and the reconstruction of the recovered signal from its *)
(* result.  Real numbers are exact rationals <<numerator, denominator>>    *)
(* in lowest terms with a positive denominator; every input of the model   *)
(* is a small integer.                                                     *)
(***************************************************************************)
EXTENDS Integers, Sequences, FiniteSets, TLC

(***************************************************************************)
(* Bounds of the model.                                                    *)
(***************************************************************************)
\* largest uncertainty entry
MaxErr == 2
\* largest factor by which the caller rescales the uncertainties
MaxScale == 2
\* largest factor between two collinear basis vectors
MaxMult == 2
\* largest length of an argument when the three lengths need not agree
MaxLen == 3

\* number of samples n of an input whose dimensions agree
RowCounts == {3}
\* number of basis vectors k (columns of the design matrix)
ColCounts == {2}
\* values of a design matrix entry
XVals == {0, 1}
\* values of an observed flux
FluxVals == {0, 1}
\* values of a valid uncertainty, and of any uncertainty: negative, zero, positive
PosErrVals == 1 .. MaxErr
ErrVals == (-1) .. MaxErr
\* the flux values of an input with an invalid uncertainty or disagreeing lengths
PlainFluxVals == {1}
\* the uncertainty values of an input of disagreeing lengths
ShapeErrVals == {0, 1}
\* coefficients beta_true tried by the recovery law
BetaVals == {-1, 0, 1}

(***************************************************************************)
(* Exact rational arithmetic (numpy float64 arithmetic, without rounding). *)
(***************************************************************************)
Abs(a) == IF a < 0 THEN -a ELSE a

RECURSIVE GCD(_, _)
GCD(a, b) == IF b = 0 THEN a ELSE GCD(b, a % b)

\* the rational n/d in lowest terms, d # 0
Rat(n, d) ==
    LET g == GCD(Abs(n), Abs(d))
        s == IF d < 0 THEN -1 ELSE 1
    IN  <<(s * n) \div g, (s * d) \div g>>

FromInt(a) == <<a, 1>>
RZero == <<0, 1>>
ROne == <<1, 1>>
\* the sum over the least common denominator, so that no product outgrows
\* the result
RAdd(p, q) ==
    IF p[1] = 0 THEN q
    ELSE IF q[1] = 0 THEN p
    ELSE IF p[2] = q[2] THEN Rat(p[1] + q[1], p[2])
    ELSE LET g == GCD(p[2], q[2])
         IN  Rat(p[1] * (q[2] \div g) + q[1] * (p[2] \div g), (p[2] \div g) * q[2])
\* the product, cancelling across before multiplying
RMul(p, q) ==
    IF p[1] = 0 \/ q[1] = 0 THEN RZero
    ELSE IF p[2] = 1 /\ q[2] = 1 THEN <<p[1] * q[1], 1>>
    ELSE LET g == GCD(Abs(p[1]), q[2])
             h == GCD(Abs(q[1]), p[2])
         IN  <<(p[1] \div g) * (q[1] \div h), (p[2] \div h) * (q[2] \div g)>>
\* p / q for q # 0
RDiv(p, q) == RMul(p, IF q[1] < 0 THEN <<-q[2], -q[1]>> ELSE <<q[2], q[1]>>)
RNeg(p) == <<-p[1], p[2]>>
RSub(p, q) == RAdd(p, RNeg(q))

\* the sum F(1) + ... + F(n)
RECURSIVE RSum(_, _)
RSum(F(_), n) == IF n = 0 THEN RZero ELSE RAdd(RSum(F, n - 1), F(n))

(***************************************************************************)
(* Arrays: a vector is a sequence, a matrix a sequence of rows.            *)
(***************************************************************************)
\* the sequence <<F(1), ..., F(n)>>
RECURSIVE Tabulate(_, _)
Tabulate(F(_), n) == IF n = 0 THEN <<>> ELSE Append(Tabulate(F, n - 1), F(n))

NRows(M) == Len(M)
NCols(M) == Len(M[1])

\* the integer array as an array of reals
VecToReal(v) == Tabulate(LAMBDA i : FromInt(v[i]), Len(v))
MatToReal(M) == Tabulate(LAMBDA i : VecToReal(M[i]), Len(M))

\* M.T
Transpose(M) ==
    Tabulate(LAMBDA j : Tabulate(LAMBDA i : M[i][j], NRows(M)), NCols(M))

\* the shape test of A @ B: the inner dimensions agree
MatMulOK(A, B) == NCols(A) = NRows(B)
MatVecOK(A, v) == NCols(A) = Len(v)

\* A @ B for matrices
MatMul(A, B) ==
    Tabulate(LAMBDA i :
        Tabulate(LAMBDA j :
            RSum(LAMBDA l : RMul(A[i][l], B[l][j]), NCols(A)), NCols(B)),
        NRows(A))

\* A @ v for a matrix and a vector
MatVec(A, v) ==
    Tabulate(LAMBDA i : RSum(LAMBDA l : RMul(A[i][l], v[l]), NCols(A)), NRows(A))

\* np.diag(v): v along the diagonal, zero elsewhere
Diag(v) ==
    Tabulate(LAMBDA i :
        Tabulate(LAMBDA j : IF i = j THEN v[i] ELSE RZero, Len(v)), Len(v))

\* M ** 2: the elementwise square
Square(M) ==
    Tabulate(LAMBDA i :
        Tabulate(LAMBDA j : RMul(M[i][j], M[i][j]), NCols(M)), NRows(M))

\* s without its i-th element
Without(s, i) == SubSeq(s, 1, i - 1) \o SubSeq(s, i + 1, Len(s))

\* M without row i and column j
Minor(M, i, j) ==
    LET R == Without(M, i)
    IN  Tabulate(LAMBDA r : Without(R[r], j), Len(R))

RECURSIVE Det(_)

\* Det with every term of the expansion added (the alternating sign lost)
DetUnsigned(M) ==
    IF NRows(M) = 1 THEN M[1][1]
    ELSE RSum(LAMBDA j : RMul(M[1][j], Det(Minor(M, 1, j))), NRows(M))

\* Det with the two products of a 2 x 2 determinant in the wrong order
DetSwapped(M) ==
    IF NRows(M) = 1 THEN M[1][1]
    ELSE IF NRows(M) = 2
    THEN RSub(RMul(M[1][2], M[2][1]), RMul(M[1][1], M[2][2]))
    ELSE RSum(LAMBDA j :
                 LET t == RMul(M[1][j], Det(Minor(M, 1, j)))
                 IN  IF j % 2 = 1 THEN t ELSE RNeg(t), NRows(M))

\* determinant of a square matrix, by expansion along the first row
Det(M) ==
    IF NRows(M) = 1 THEN M[1][1]
    ELSE RSum(LAMBDA j :
                 LET t == RMul(M[1][j], Det(Minor(M, 1, j)))
                 IN  IF j % 2 = 1 THEN t ELSE RNeg(t), NRows(M))

\* np.linalg.inv raises LinAlgError("Singular matrix") on a singular matrix
Singular(M) == Det(M) = RZero

\* the (i, j) cofactor of M
Cofactor(M, i, j) ==
    IF NRows(M) = 1 THEN ROne
    ELSE LET t == Det(Minor(M, i, j))
         IN  IF (i + j) % 2 = 0 THEN t ELSE RNeg(t)

\* np.linalg.inv(M) of a non-singular square matrix: adjugate over determinant
Inv(M) ==
    LET d == Det(M)
    IN  Tabulate(LAMBDA i :
            Tabulate(LAMBDA j : RDiv(Cofactor(M, j, i), d), NRows(M)), NRows(M))

(***************************************************************************)
(* linreg(X, flux, err), one definition per expression of its body.  A     *)
(* call yields [outcome, betas, cov, ops]: ops lists, in order, the numpy  *)
(* operations the call completed before it returned or raised.             *)
(***************************************************************************)
\* NoiseMatrix without the square: np.diag(err)
NoiseMatrixUnsquared(err) == Diag(err)

\* np.diag(err)**2: the squared uncertainties along the diagonal
NoiseMatrix(err) == Square(Diag(err))

\* InnerMatrix without the weights: X.T @ X
InnerMatrixUnweighted(X, inv_N) == MatMul(Transpose(X), X)

\* X.T @ inv_N @ X, evaluated left to right
InnerMatrix(X, inv_N) == MatMul(MatMul(Transpose(X), inv_N), X)

\* Projector without its second inv_N: np.linalg.inv(..) @ X.T
ProjectorUnweighted(invA, X, inv_N) == MatMul(invA, Transpose(X))

\* np.linalg.inv(X.T @ inv_N @ X) @ X.T @ inv_N, given the inverse
Projector(invA, X, inv_N) == MatMul(MatMul(invA, Transpose(X)), inv_N)

\* cov = np.linalg.inv(X.T @ inv_N @ X)
CovMatrix(X, inv_N) == Inv(InnerMatrix(X, inv_N))

\* a call that raised exc after completing ops: no betas, no cov
Raised(exc, ops) == [outcome |-> exc, betas |-> <<>>, cov |-> <<>>, ops |-> ops]

\* operations of inv_N = np.linalg.inv(np.diag(err)**2)
OpsNoise == <<"np.diag(err)", "**2">>
OpsInvN == OpsNoise \o <<"inv(N)">>
\* operations of np.linalg.inv(X.T @ inv_N @ X)
OpsFormInner == <<"X.T", "X.T @ inv_N", "X.T @ inv_N @ X">>
OpsInner == OpsFormInner \o <<"inv(X.T @ inv_N @ X)">>
\* operations that follow the inverse in the betas statement, up to @ flux
OpsProjector == <<"X.T", "inv(..) @ X.T", "inv(..) @ X.T @ inv_N">>

\* betas = ...; cov = ...; return betas, cov
SolveWith(X, flux, inv_N) ==
    IF ~MatMulOK(Transpose(X), inv_N)
    THEN Raised("ValueError", OpsInvN \o <<"X.T">>)
    ELSE LET A == InnerMatrix(X, inv_N)
         IN  IF Singular(A)
             THEN Raised("LinAlgError", OpsInvN \o OpsFormInner)
             ELSE LET P == Projector(Inv(A), X, inv_N)
                  IN  IF ~MatVecOK(P, flux)
                      THEN Raised("ValueError", OpsInvN \o OpsInner \o OpsProjector)
                      ELSE [outcome |-> "returned",
                            betas |-> MatVec(P, flux),
                            cov |-> CovMatrix(X, inv_N),
                            ops |-> OpsInvN \o OpsInner \o OpsProjector
                                    \o <<".. @ flux">> \o OpsInner]

\* def linreg(X, flux, err), on arrays of reals
Linreg(X, flux, err) ==
    LET N == NoiseMatrix(err)
    IN  IF Singular(N)
        THEN Raised("LinAlgError", OpsNoise)
        ELSE SolveWith(X, flux, Inv(N))

(***************************************************************************)
(* The notebook's use of linreg.                                           *)
(***************************************************************************)
\* M[:, :-1]: every column but the last
DropLastCol(M) == Tabulate(LAMBDA i : SubSeq(M[i], 1, NCols(M) - 1), NRows(M))
\* v[:-1]
DropLast(v) == SubSeq(v, 1, Len(v) - 1)
\* u - v, elementwise
VecSub(u, v) == Tabulate(LAMBDA i : RSub(u[i], v[i]), Len(u))

\* RecoveredSignal with no column left out: flux_observed - X_obs @ betas
Residuals(X, flux, b) == VecSub(flux, MatVec(X, b))

\* flux_observed - (X_obs[:, :-1] @ betas[:-1])
RecoveredSignal(X, flux, b) == VecSub(flux, MatVec(DropLastCol(X), DropLast(b)))

VARIABLES
    X,               \* X_obs, the design matrix (integer entries)
    flux,            \* flux_observed
    err,             \* err
    pc,              \* "input", "solved" or "reconstructed"
    outcome,         \* "pending", "returned", "LinAlgError" or "ValueError"
    betas, cov,      \* what linreg returned, <<>> if nothing
    ops,             \* the numpy operations the call completed, in order
    best_flux_model, \* X_obs @ betas
    recovered,       \* the recovered signal
    scale,           \* the factor applied to the first call's uncertainties
    prevBetas, prevCov  \* the first call's result, kept across a rescaled call

vars == <<X, flux, err, pc, outcome, betas, cov, ops, best_flux_model,
          recovered, scale, prevBetas, prevCov>>

Vec(n, S) == [1 .. n -> S]
Mat(n, k, S) == [1 .. n -> [1 .. k -> S]]

\* nothing computed yet
Fresh ==
    /\ pc = "input"
    /\ outcome = "pending"
    /\ betas = <<>> /\ cov = <<>> /\ ops = <<>>
    /\ best_flux_model = <<>> /\ recovered = <<>>
    /\ scale = 1 /\ prevBetas = <<>> /\ prevCov = <<>>

\* any design matrix and flux, with valid (positive) uncertainties
InitValid ==
    \E n \in RowCounts, k \in ColCounts :
        /\ X \in Mat(n, k, XVals)
        /\ flux \in Vec(n, FluxVals)
        /\ err \in Vec(n, PosErrVals)

\* any design matrix, with an uncertainty that is zero or negative
InitInvalidErr ==
    \E n \in RowCounts, k \in ColCounts :
        /\ X \in Mat(n, k, XVals)
        /\ flux \in Vec(n, PlainFluxVals)
        /\ err \in Vec(n, ErrVals)
        /\ \E i \in 1 .. n : err[i] <= 0

\* two basis vectors v and c * v, in either order, with valid uncertainties
InitCollinear ==
    \E n \in RowCounts, c \in 0 .. MaxMult :
        /\ \E v \in Vec(n, XVals) :
              \/ X = [i \in 1 .. n |-> <<v[i], c * v[i]>>]
              \/ X = [i \in 1 .. n |-> <<c * v[i], v[i]>>]
        /\ flux \in Vec(n, FluxVals)
        /\ err \in Vec(n, PosErrVals)

\* arguments whose three lengths are not all the same
InitMismatch ==
    \E nx \in 1 .. MaxLen, nf \in 1 .. MaxLen, ne \in 1 .. MaxLen, k \in ColCounts :
        /\ ~(nx = nf /\ nf = ne)
        /\ X \in Mat(nx, k, XVals)
        /\ flux \in Vec(nf, PlainFluxVals)
        /\ err \in Vec(ne, ShapeErrVals)

Init == (InitValid \/ InitInvalidErr \/ InitCollinear \/ InitMismatch) /\ Fresh

\* betas, cov = linreg(X_obs, flux_observed, err); best_flux_model = X_obs @ betas
Fit ==
    /\ pc = "input"
    /\ \E r \in {Linreg(MatToReal(X), VecToReal(flux), VecToReal(err))} :
          /\ outcome' = r.outcome
          /\ betas' = r.betas
          /\ cov' = r.cov
          /\ ops' = r.ops
          /\ best_flux_model' = IF r.outcome = "returned"
                                THEN MatVec(MatToReal(X), r.betas) ELSE <<>>
    /\ pc' = "solved"
    /\ UNCHANGED <<X, flux, err, recovered, scale, prevBetas, prevCov>>

\* the last cell: the recovered signal, from the betas linreg returned
Reconstruct ==
    /\ pc = "solved"
    /\ outcome = "returned"
    /\ recovered' = RecoveredSignal(MatToReal(X), VecToReal(flux), betas)
    /\ pc' = "reconstructed"
    /\ UNCHANGED <<X, flux, err, outcome, betas, cov, ops, best_flux_model,
                   scale, prevBetas, prevCov>>

\* the caller multiplies every uncertainty by c and runs the fit again
Rescale ==
    /\ pc = "reconstructed"
    /\ scale = 1
    /\ \E c \in 2 .. MaxScale :
          /\ err' = [i \in 1 .. Len(err) |-> c * err[i]]
          /\ scale' = c
    /\ prevBetas' = betas
    /\ prevCov' = cov
    /\ pc' = "input"
    /\ outcome' = "pending"
    /\ betas' = <<>> /\ cov' = <<>> /\ ops' = <<>>
    /\ best_flux_model' = <<>> /\ recovered' = <<>>
    /\ UNCHANGED <<X, flux>>

Next == Fit \/ Reconstruct \/ Rescale

Spec == Init /\ [][Next]_vars

(***************************************************************************)
(* Properties.  The vocabulary first: each is computed from the integer    *)
(* inputs X, flux and err, not from what linreg computed.                  *)
(***************************************************************************)
n_ == Len(X)
k_ == Len(X[1])

\* the row count of X, the length of flux and the length of err all agree
DimsAgree == Len(X) = Len(flux) /\ Len(flux) = Len(err)
PositiveErr == \A i \in 1 .. Len(err) : err[i] > 0
UniformErr == \A i \in 1 .. Len(err) : err[i] = err[1]

\* columns j and l of X are linearly dependent: every 2 x 2 minor vanishes
Dependent(j, l) ==
    \A r \in 1 .. n_, t \in 1 .. n_ : X[r][j] * X[t][l] = X[t][j] * X[r][l]
Collinear == \E j \in 1 .. k_, l \in 1 .. k_ : j # l /\ Dependent(j, l)

\* the Gram determinant det(X.T X): nonzero exactly for independent columns
GramDet ==
    Det(Tabulate(LAMBDA j :
            Tabulate(LAMBDA l :
                RSum(LAMBDA i : FromInt(X[i][j] * X[i][l]), n_), k_), k_))
FullColumnRank == GramDet # RZero
WellPosed == DimsAgree /\ PositiveErr /\ FullColumnRank

\* entry (j, l) of X.T W X and entry j of X.T W y, with W = diag(1 / err_i^2)
XtWX(j, l) == RSum(LAMBDA i : Rat(X[i][j] * X[i][l], err[i] * err[i]), n_)
XtWy(j) == RSum(LAMBDA i : Rat(X[i][j] * flux[i], err[i] * err[i]), n_)

\* the normal equations (X.T W X) b = X.T W y
SolvesNormalEquations(b) ==
    \A j \in 1 .. k_ : RSum(LAMBDA l : RMul(XtWX(j, l), b[l]), k_) = XtWy(j)
\* (X.T W X) C = I
InvertsInner(C) ==
    \A j \in 1 .. k_, l \in 1 .. k_ :
        RSum(LAMBDA m : RMul(XtWX(j, m), C[m][l]), k_)
            = IF j = l THEN ROne ELSE RZero

\* C1: a well-posed call returns betas = (X.T W X)^-1 X.T W y and
\* cov = (X.T W X)^-1 with W = diag(1 / err_i^2), that is, the solution of the
\* normal equations and the inverse of X.T W X.
C1_NormalEquations ==
    (pc = "solved" /\ WellPosed) =>
        /\ outcome = "returned"
        /\ Len(betas) = k_ /\ Len(cov) = k_
        /\ SolvesNormalEquations(betas)
        /\ InvertsInner(cov)
C1_Witness ==
    /\ pc = "solved" /\ WellPosed /\ ~UniformErr
    /\ outcome = "returned"
    /\ \E j \in 1 .. k_ : betas[j][2] > 1
    /\ cov[1][2] # RZero

\* flux is exactly X b
ExactCombination(b) ==
    \A i \in 1 .. n_ :
        RSum(LAMBDA j : FromInt(X[i][j] * b[j]), k_) = FromInt(flux[i])

\* C2: recovery law: for a well-posed call whose flux is exactly X beta_true,
\* uniform uncertainties or not, the betas returned are beta_true.
C2_Recovery ==
    (pc = "solved" /\ WellPosed) =>
        \A b \in Vec(k_, BetaVals) :
            ExactCombination(b) => outcome = "returned" /\ betas = VecToReal(b)
C2_Witness ==
    /\ pc = "solved" /\ WellPosed /\ ~UniformErr
    /\ \E b \in Vec(k_, BetaVals) :
          /\ \A j \in 1 .. k_ : b[j] # 0
          /\ ExactCombination(b)
          /\ betas = VecToReal(b)

\* C3: weight invariance: the fit with every uncertainty multiplied by the
\* same c > 1 returns the betas of the fit with the uncertainties as given.
C3_WeightInvariance ==
    (pc = "solved" /\ scale > 1) => outcome = "returned" /\ betas = prevBetas
C3_Witness ==
    /\ pc = "solved" /\ scale > 1 /\ WellPosed /\ ~UniformErr
    /\ outcome = "returned"
    /\ betas = prevBetas
    /\ \E j \in 1 .. k_ : betas[j] # RZero
    /\ cov # prevCov

C5_NonPositiveErrRejected ==
    (pc = "solved" /\ DimsAgree /\ ~PositiveErr) => outcome # "returned"

\* C6 (as claimed): a call whose dimensions disagree ends in the
\* dimension-mismatch error (numpy's ValueError of a shape mismatch).
C6_MismatchIsValueError ==
    (pc = "solved" /\ ~DimsAgree) => outcome = "ValueError"

\* the index of the signal template: the last column
SignalColumn == k_

\* C7: reconstruction: recovered_i = flux_i minus the sum over every column j
\* but the signal column of X[i][j] * betas[j].
C7_Reconstruction ==
    pc = "reconstructed" =>
        /\ Len(recovered) = n_
        /\ \A i \in 1 .. n_ :
              recovered[i] =
                  RSub(FromInt(flux[i]),
                       RSum(LAMBDA j : IF j = SignalColumn THEN RZero
                                       ELSE RMul(FromInt(X[i][j]), betas[j]), k_))
C7_Witness ==
    /\ pc = "reconstructed"
    /\ betas[SignalColumn] # RZero
    /\ \E j \in 1 .. k_ : j # SignalColumn /\ betas[j] # RZero
    /\ \E i \in 1 .. n_ : X[i][SignalColumn] # 0 /\ X[i][1] # 0
    /\ recovered # VecToReal(flux)

\* C8: covariance positivity: a well-posed call returns a covariance matrix
\* whose diagonal entries are all >= 0.
C8_CovDiagonal ==
    (pc = "solved" /\ WellPosed) =>
        /\ outcome = "returned"
        /\ \A j \in 1 .. k_ : cov[j][j][1] >= 0
C8_Witness ==
    /\ pc = "solved" /\ WellPosed /\ ~UniformErr
    /\ outcome = "returned"
    /\ \A j \in 1 .. k_ : cov[j][j][1] > 0
    /\ cov[1][2][1] < 0

\* how many times the call formed X.T @ inv_N @ X
InnerFormed == Cardinality({i \in 1 .. Len(ops) : ops[i] = "X.T @ inv_N @ X"})

\* C9 (as claimed): a call that returns formed X.T @ inv_N @ X exactly once.
C9_InnerFormedOnce ==
    (pc = "solved" /\ outcome = "returned") => InnerFormed = 1

\* C10 (as claimed): eager dimension check: when a call whose dimensions
\* disagree reports the mismatch, it has done no numeric work before: no numpy
\* operation (diag, square, inverse, product) was completed.
C10_MismatchBeforeWork ==
    (pc = "solved" /\ ~DimsAgree /\ outcome = "ValueError") => ops = <<>>

====
